---- MODULE Spec2Model ----
(***************************************************************************)
(* Model of scripts/39_upgrade.py: the bulk migration that recomputes the  *)
(* geojson, geom and location columns of tasks from task_geometries, in    *)
(* batches of a fixed size, two UPDATE statements and one commit a batch.  *)
(***************************************************************************)
EXTENDS Integers, Sequences, FiniteSets, Bags, TLC

\* ------------------------------------------------------------------ bounds
NumTasks == 3
MaxFragRows == 2
MaxBatchSize == 2
MaxRuns == 2

\* ------------------------------------------------------------ SQL values
NULL == <<>>
Some(x) == <<x>>
IsNull(c) == c = NULL

TaskIds == 1..NumTasks

\* hstore property bags: sets of <<key, value>> pairs
HstoreA == {<<"name", "a">>}
HstoreB == {<<"name", "b">>, <<"kind", "x">>}

\* geometries are vertex lists on a line: <<0>> is a point,
\* <<4, 4>> is a degenerate (invalid) linestring with a repeated vertex
FragmentKinds ==
  { [geom |-> <<0>>, properties |-> HstoreA],
    [geom |-> <<4, 4>>, properties |-> HstoreB] }

FragRows ==
  { [task_id |-> t, geom |-> k.geom, properties |-> k.properties] :
      t \in TaskIds, k \in FragmentKinds }

RECURSIVE SumOver(_, _)
SumOver(f, S) ==
  IF S = {} THEN 0
  ELSE LET x == CHOOSE y \in S : TRUE
       IN  f[x] + SumOver(f, S \ {x})

\* all contents of table task_geometries with at most MaxFragRows rows
FragTables ==
  LET counts == { c \in [FragRows -> 0..MaxFragRows] : SumOver(c, FragRows) <= MaxFragRows }
  IN  { [r \in {x \in FragRows : c[x] > 0} |-> c[r]] : c \in counts }

\* ------------------------------------------------- store functions (PostGIS)
RECURSIVE GCD(_, _)
GCD(a, b) == IF b = 0 THEN a ELSE GCD(b, a % b)

RECURSIVE SumSeq(_)
SumSeq(s) == IF s = <<>> THEN 0 ELSE Head(s) + SumSeq(Tail(s))

RECURSIVE ST_MakeValid(_)
ST_MakeValid(g) ==
  IF Len(g) <= 1 THEN g
  ELSE IF g[1] = g[2] THEN ST_MakeValid(Tail(g))
       ELSE <<g[1]>> \o ST_MakeValid(Tail(g))

ST_AsGeoJSON(g) ==
  [type |-> IF Len(g) = 1 THEN "Point" ELSE "LineString", coordinates |-> g]

HSTORE_TO_JSON(h) ==
  LET keys == {p[1] : p \in h}
  IN  [k \in keys |-> (CHOOSE p \in h : p[1] = k)[2]]

\* image of the bag B under the function F, multiplicities added up
BagImage(F, B) ==
  LET S == DOMAIN B
      img == {F[x] : x \in S}
  IN  [y \in img |-> SumOver(B, {x \in S : F[x] = y})]

RowsOf(fr, t) == [r \in {x \in DOMAIN fr : x.task_id = t} |-> fr[r]]

HasFragments(fr, t) == \E r \in DOMAIN fr : r.task_id = t

Feature(r) ==
  [task_id |-> r.task_id, type |-> "Feature",
   geometry |-> ST_AsGeoJSON(r.geom),
   properties |-> HSTORE_TO_JSON(r.properties)]

FeatureCollection(fr, t) ==
  [task_id |-> t, type |-> "FeatureCollection",
   features |-> BagImage([r \in DOMAIN RowsOf(fr, t) |-> Feature(r)], RowsOf(fr, t))]

\* ST_COLLECT aggregate: the collection of the members, nothing dissolved
ST_Collect(fr, t) ==
  BagImage([r \in DOMAIN RowsOf(fr, t) |-> ST_MakeValid(r.geom)], RowsOf(fr, t))

\* centroid of a collection, as a fraction in lowest terms
ST_Centroid(c) ==
  LET S == DOMAIN c
      total == SumOver([g \in S |-> c[g] * SumSeq(g)], S)
      n == SumOver([g \in S |-> c[g] * Len(g)], S)
      d == GCD(total, n)
  IN  [num |-> total \div d, den |-> n \div d]

Range(s) == {s[i] : i \in 1..Len(s)}

IsCandidate(row) == IsNull(row.geojson) \/ IsNull(row.geom)

Candidates(db) == {t \in DOMAIN db : IsCandidate(db[t])}

RECURSIVE Ascending(_)
Ascending(S) ==
  IF S = {} THEN <<>>
  ELSE LET m == CHOOSE x \in S : \A y \in S : x <= y
       IN  <<m>> \o Ascending(S \ {m})

Reverse(s) == [i \in 1..Len(s) |-> s[Len(s) + 1 - i]]

\* the orders in which the store hands out the rows of a query without ORDER
\* BY: a forward and a backward scan.  Init gives every id every row content,
\* so every sequence of row contents is discovered in some behaviour.
ResultOrders(S) == {Ascending(S), Reverse(Ascending(S))}

\* the first UPDATE with an outer join: a task without fragments gets an
\* empty collection
GeojsonUpdateOuterJoin(db, fr, ids) ==
  [t \in DOMAIN db |->
     IF t \in Range(ids)
     THEN [db[t] EXCEPT !.geojson = Some(FeatureCollection(fr, t))]
     ELSE db[t]]

GeojsonUpdate(db, fr, ids) ==
  [t \in DOMAIN db |->
     IF t \in Range(ids) /\ HasFragments(fr, t)
     THEN [db[t] EXCEPT !.geojson = Some(FeatureCollection(fr, t))]
     ELSE db[t]]

\* the second UPDATE without its "id IN (...)" filters
GeomUpdateNoFilter(db, fr, ids) ==
  [t \in DOMAIN db |->
     IF HasFragments(fr, t)
     THEN [db[t] EXCEPT !.geom = Some(ST_Collect(fr, t)),
                        !.location = Some(ST_Centroid(ST_Collect(fr, t)))]
     ELSE db[t]]

GeomUpdate(db, fr, ids) ==
  [t \in DOMAIN db |->
     IF t \in Range(ids) /\ HasFragments(fr, t)
     THEN [db[t] EXCEPT !.geom = Some(ST_Collect(fr, t)),
                        !.location = Some(ST_Centroid(ST_Collect(fr, t)))]
     ELSE db[t]]

\* the trigger tested on the count before the increment
BatchFullBeforeIncrement(c, size) == (c - 1) % size = 0

BatchFull(c, size) == c % size = 0

\* ---------------------------------------------------------- initial rows
OldGeojson(t) ==
  [task_id |-> t, type |-> "FeatureCollection", features |-> SetToBag({"old"})]
OldGeom == SetToBag({<<9>>})
OldLocation == [num |-> 9, den |-> 1]

InitialRows(t) ==
  { [id |-> t, geojson |-> NULL, geom |-> NULL, location |-> NULL],
    [id |-> t, geojson |-> Some(OldGeojson(t)), geom |-> NULL, location |-> NULL],
    [id |-> t, geojson |-> Some(OldGeojson(t)), geom |-> Some(OldGeom),
     location |-> Some(OldLocation)] }

\* ------------------------------------------------------------------ state
VARIABLES
  tasks,      \* committed contents of table tasks
  txn,        \* contents of tasks as the open transaction sees them
  frags,      \* contents of table task_geometries
  batchSize,  \* the batch size of the script
  cur,        \* result set of the candidate query, in the store's order
  pos,        \* number of rows the loop has taken from cur
  counter,
  idList,
  pc,
  out,        \* progress lines printed, as <<counter, len(idList)>>
  applied,    \* batches committed by the current run
  pre,        \* committed contents of tasks when the current run started
  failedAt,   \* the statement that raised, "none" if none
  run,        \* number of runs started
  ends        \* how each finished run ended

vars == <<tasks, txn, frags, batchSize, cur, pos, counter, idList, pc, out,
          applied, pre, failedAt, run, ends>>

Init ==
  /\ tasks \in {f \in [TaskIds -> UNION {InitialRows(t) : t \in TaskIds}] :
                  \A t \in TaskIds : f[t] \in InitialRows(t)}
  /\ txn = tasks
  /\ frags \in FragTables
  /\ batchSize \in 1..MaxBatchSize
  /\ cur = <<>>
  /\ pos = 0
  /\ counter = 0
  /\ idList = <<>>
  /\ pc = "start"
  /\ out = <<>>
  /\ applied = <<>>
  /\ pre = tasks
  /\ failedAt = "none"
  /\ run = 0
  /\ ends = <<>>

\* lines 13-17: connect, run the candidate query, reset counter and idList;
\* the script is run again only after a run that completed
Select ==
  /\ pc \in {"start", "done"}
  /\ run < MaxRuns
  /\ run' = run + 1
  /\ cur' \in ResultOrders(Candidates(tasks))
  /\ pos' = 0
  /\ counter' = 0
  /\ idList' = <<>>
  /\ txn' = tasks
  /\ pre' = tasks
  /\ applied' = <<>>
  /\ out' = <<>>
  /\ failedAt' = "none"
  /\ pc' = "loop"
  /\ UNCHANGED <<tasks, frags, batchSize, ends>>

\* lines 18-21: take the next row, append its id, count it, test the trigger
Accumulate ==
  /\ pc = "loop"
  /\ pos < Len(cur)
  /\ pos' = pos + 1
  /\ idList' = Append(idList, cur[pos + 1])
  /\ counter' = counter + 1
  /\ pc' = IF BatchFull(counter + 1, batchSize) THEN "geojson" ELSE "loop"
  /\ UNCHANGED <<tasks, txn, frags, batchSize, cur, out, applied, pre, failedAt, run, ends>>

\* the first UPDATE on an autocommit connection
UpdateGeojsonAutocommit ==
  /\ pc = "geojson"
  /\ txn' = GeojsonUpdate(txn, frags, idList)
  /\ tasks' = GeojsonUpdate(txn, frags, idList)
  /\ pc' = "geom"
  /\ UNCHANGED <<frags, batchSize, cur, pos, counter, idList, out, applied, pre,
                 failedAt, run, ends>>

\* lines 22-34: the first UPDATE, inside the open transaction
UpdateGeojson ==
  /\ pc = "geojson"
  /\ txn' = GeojsonUpdate(txn, frags, idList)
  /\ pc' = "geom"
  /\ UNCHANGED <<tasks, frags, batchSize, cur, pos, counter, idList, out, applied, pre,
                 failedAt, run, ends>>

\* lines 35-40: the second UPDATE, inside the same transaction
UpdateGeom ==
  /\ pc = "geom"
  /\ txn' = GeomUpdate(txn, frags, idList)
  /\ pc' = "commit"
  /\ UNCHANGED <<tasks, frags, batchSize, cur, pos, counter, idList, out, applied, pre,
                 failedAt, run, ends>>

\* the commit without line 46
CommitNoClear ==
  /\ pc = "commit"
  /\ tasks' = txn
  /\ out' = Append(out, <<counter, Len(idList)>>)
  /\ applied' = Append(applied, idList)
  /\ pc' = "loop"
  /\ UNCHANGED <<txn, frags, batchSize, cur, pos, counter, idList, pre, failedAt, run, ends>>

\* lines 41-46: commit, print the progress line, clear the pending batch
Commit ==
  /\ pc = "commit"
  /\ tasks' = txn
  /\ out' = Append(out, <<counter, Len(idList)>>)
  /\ applied' = Append(applied, idList)
  /\ idList' = <<>>
  /\ pc' = "loop"
  /\ UNCHANGED <<txn, frags, batchSize, cur, pos, counter, pre, failedAt, run, ends>>

\* the error caught around the batch: roll back, drop the batch, go on
FailAndContinue ==
  /\ pc \in {"geojson", "geom", "commit"}
  /\ failedAt' = pc
  /\ txn' = tasks
  /\ idList' = <<>>
  /\ pc' = "loop"
  /\ UNCHANGED <<tasks, frags, batchSize, cur, pos, counter, out, applied, pre, run, ends>>

\* an execute or the commit raises: nothing catches it, the process ends and
\* the store aborts the open transaction
Fail ==
  /\ pc \in {"geojson", "geom", "commit"}
  /\ failedAt' = pc
  /\ txn' = tasks
  /\ pc' = "failed"
  /\ ends' = Append(ends, [status |-> "failed", tasks |-> tasks, batches |-> Len(applied)])
  /\ UNCHANGED <<tasks, frags, batchSize, cur, pos, counter, idList, out, applied, pre, run>>

\* the end of the loop followed by a flush of the pending batch
FinishWithFlush ==
  /\ pc = "loop"
  /\ pos = Len(cur)
  /\ IF idList # <<>>
     THEN pc' = "geojson" /\ UNCHANGED ends
     ELSE /\ pc' = "done"
          /\ ends' = Append(ends, [status |-> "done", tasks |-> tasks, batches |-> Len(applied)])
  /\ UNCHANGED <<tasks, txn, frags, batchSize, cur, pos, counter, idList, out, applied, pre,
                 failedAt, run>>

\* line 47: the result set is exhausted, the pending batch is left as it is
Finish ==
  /\ pc = "loop"
  /\ pos = Len(cur)
  /\ pc' = "done"
  /\ ends' = Append(ends, [status |-> "done", tasks |-> tasks, batches |-> Len(applied)])
  /\ UNCHANGED <<tasks, txn, frags, batchSize, cur, pos, counter, idList, out, applied, pre,
                 failedAt, run>>

Next ==
  \/ Select
  \/ Accumulate
  \/ UpdateGeojson
  \/ UpdateGeom
  \/ Commit
  \/ Fail
  \/ Finish

Spec == Init /\ [][Next]_vars

\* ------------------------------------------------------------ properties
TypeOK ==
  /\ DOMAIN tasks = TaskIds
  /\ pc \in {"start", "loop", "geojson", "geom", "commit", "done", "failed"}
  /\ pos \in 0..NumTasks
  /\ counter = pos

\* the row the two statements of lines 25-40 leave for a task with fragments
Derived(t) ==
  [id |-> t,
   geojson |-> Some(FeatureCollection(frags, t)),
   geom |-> Some(ST_Collect(frags, t)),
   location |-> Some(ST_Centroid(ST_Collect(frags, t)))]

AppliedIds == UNION {Range(applied[j]) : j \in 1..Len(applied)}

\* C1: when a run without store error is done, every task that was a
\* candidate when the run started is in exactly one committed batch.
C1_FullPassOnce ==
  (pc = "done") =>
    \A t \in Candidates(pre) :
      Cardinality({j \in 1..Len(applied) : t \in Range(applied[j])}) = 1

\* C2: when a run without store error is done, every task that was a
\* candidate at its start and has a fragment has geojson = the feature
\* collection of its fragments, geom = the set-union of its repaired
\* fragment geometries and location = the centroid of that union.
C2_DerivedFromUnion ==
  (pc = "done") =>
    \A t \in Candidates(pre) :
      HasFragments(frags, t) =>
        LET c == ST_Collect(frags, t)
            union == [g \in DOMAIN c |-> 1]
        IN  /\ tasks[t].geojson = Some(FeatureCollection(frags, t))
            /\ tasks[t].geom = Some(union)
            /\ tasks[t].location = Some(ST_Centroid(union))

\* C3 as stated: when the number of candidates is an exact multiple of the
\* batch size, a run without store error leaves every one of them with
\* non-null geojson and geom, whatever its number of fragments.
C3_CompleteAnyFragments ==
  (pc = "done" /\ Len(cur) % batchSize = 0) =>
    \A t \in Candidates(pre) :
      ~IsNull(tasks[t].geojson) /\ ~IsNull(tasks[t].geom)

\* C3 amended: when the number of candidates is an exact multiple of the
\* batch size, a run without store error leaves every one of them that has
\* at least one fragment with non-null geojson and geom.
C3_CompleteWithFragments ==
  (pc = "done" /\ Len(cur) % batchSize = 0) =>
    \A t \in Candidates(pre) :
      HasFragments(frags, t) =>
        ~IsNull(tasks[t].geojson) /\ ~IsNull(tasks[t].geom)

C3_Witness ==
  /\ pc = "done"
  /\ Len(cur) > 0
  /\ Len(cur) % batchSize = 0
  /\ \E t \in Candidates(pre) : HasFragments(frags, t) /\ IsNull(pre[t].geom)
  /\ \E t \in Candidates(pre) : ~HasFragments(frags, t)

C5_Idempotent ==
  (Len(ends) = 2 /\ ends[1].status = "done" /\ ends[2].status = "done") =>
    /\ ends[2].tasks = ends[1].tasks
    /\ ends[2].batches = 0

\* C6: a committed row never shows part of a batch: a task whose committed
\* geojson, geom or location differs from the pre-run value carries all
\* three derived values, and when the second update or the commit of a
\* batch fails every task of that batch has its pre-batch row.
C6_BatchAtomic ==
  /\ \A t \in TaskIds : tasks[t] # pre[t] => tasks[t] = Derived(t)
  /\ failedAt \in {"geom", "commit"} =>
       \A t \in Range(idList) : tasks[t] = pre[t]

C6_Witness ==
  /\ pc = "failed"
  /\ failedAt = "geom"
  /\ \E t \in Range(idList) :
       HasFragments(frags, t) /\ pre[t].geojson # Some(FeatureCollection(frags, t))

\* C7: the run never adds or removes a task or a fragment and never changes
\* a fragment; the committed row of a task outside every committed batch,
\* and the in-transaction row of a task outside every committed batch and
\* outside the batch being applied, is its pre-run row; so at the end the
\* non-candidates and the unflushed trailing candidates have kept their row.
C7_Frame ==
  /\ [](/\ DOMAIN tasks = DOMAIN pre
        /\ DOMAIN txn = DOMAIN pre
        /\ \A t \in TaskIds : tasks[t].id = t /\ txn[t].id = t
        /\ \A t \in TaskIds \ AppliedIds : tasks[t] = pre[t]
        /\ \A t \in TaskIds \ (AppliedIds \cup
                                (IF pc \in {"geom", "commit"} THEN Range(idList) ELSE {})) :
             txn[t] = pre[t]
        /\ (pc = "done") =>
             \A t \in Range(idList) \cup (TaskIds \ Candidates(pre)) : tasks[t] = pre[t])
  /\ [][frags' = frags /\ DOMAIN tasks' = DOMAIN tasks]_vars

C7_Witness ==
  /\ pc = "done"
  /\ tasks # pre
  /\ \E t \in TaskIds \ Candidates(pre) : HasFragments(frags, t)

\* C8: once a statement or the commit of a batch has failed the run is over
\* and takes no further step; the tasks of the batches committed before
\* have their migrated row, the tasks of the failed batch and every other
\* task have their pre-run row.
C8_FailureIsFatal ==
  /\ [](failedAt # "none" =>
          /\ pc = "failed"
          /\ \A t \in AppliedIds :
               tasks[t] = IF HasFragments(frags, t) THEN Derived(t) ELSE pre[t]
          /\ \A t \in TaskIds \ AppliedIds : tasks[t] = pre[t]
          /\ Range(idList) \cap AppliedIds = {}
          /\ Len(applied) = (counter \div batchSize) - 1)
  /\ [][failedAt = "none"]_vars

C8_Witness ==
  /\ pc = "failed"
  /\ applied # <<>>
  /\ \E t \in AppliedIds : tasks[t] # pre[t]
  /\ \E t \in Range(idList) : HasFragments(frags, t)

\* C9: every committed batch is the batchSize identifiers discovered last
\* before its commit, all distinct, and no identifier is in two batches;
\* a batch is being applied only at a positive multiple of batchSize; the
\* pending batch never exceeds batchSize and between iterations holds
\* counter mod batchSize identifiers; one batch per multiple reached.
C9_BatchShape ==
  /\ \A j \in 1..Len(applied) :
       /\ applied[j] = SubSeq(cur, (j - 1) * batchSize + 1, j * batchSize)
       /\ Len(applied[j]) = batchSize
       /\ Cardinality(Range(applied[j])) = batchSize
       /\ out[j] = <<j * batchSize, batchSize>>
  /\ \A i, j \in 1..Len(applied) :
       i # j => Range(applied[i]) \cap Range(applied[j]) = {}
  /\ Len(out) = Len(applied)
  /\ Len(idList) <= batchSize
  /\ pc \in {"geojson", "geom", "commit"} =>
       /\ counter > 0
       /\ counter % batchSize = 0
       /\ idList = SubSeq(cur, counter - batchSize + 1, counter)
  /\ pc \in {"loop", "done"} =>
       /\ Len(idList) = counter % batchSize
       /\ Len(applied) = counter \div batchSize

C9_Witness ==
  /\ pc = "done"
  /\ batchSize > 1
  /\ applied # <<>>
  /\ idList # <<>>

\* C10: a candidate without fragments that is in a committed batch has its
\* pre-batch row, committed and in the transaction, and is still a candidate.
C10_NoFragmentsUnchanged ==
  \A t \in AppliedIds :
    ~HasFragments(frags, t) =>
      /\ tasks[t] = pre[t]
      /\ txn[t] = pre[t]
      /\ IsCandidate(tasks[t])

C10_Witness ==
  /\ pc = "done"
  /\ \E t \in AppliedIds : ~HasFragments(frags, t)
  /\ \E t \in AppliedIds : tasks[t] # pre[t]
====
